---- MODULE Spec2Model ----
\* Model of protect-python-app: CompiledEncryptor.encrypt_file,
\* CythonRuntimeLoader.load_and_run / main, and build_encrypted_application.
EXTENDS Integers, Sequences, FiniteSets, TLC

VARIABLES
    fs,         \* the filesystem: path -> content (a sequence of units) or NoFile
    fs0,        \* the filesystem as it was when the modelled call started
    enc,        \* frame of CompiledEncryptor.encrypt_file
    rt,         \* result of CythonRuntimeLoader._decrypt_file on the written artifact
    bld,        \* frame of build_encrypted_application and its __main__ caller
    pc,         \* per loader process: position in main / load_and_run
    decrypted_data, \* per loader process: local of load_and_run
    temp_file,  \* per loader process: temp_file.name inside the with block
    temp_file_path, \* per loader process: local of load_and_run
    pending,    \* per loader process: the exception in flight through the finally block
    created,    \* per loader process: staging names NamedTemporaryFile created for it
    owner,      \* staging name -> process that created the file now under that name
    loaded,     \* per loader process: module_from_spec returned a module
    execCount,  \* per loader process: times the module body has been executed
    unlinked,   \* per loader process: "no" / "ok" / "failed" outcome of os.unlink
    outcome,    \* per loader process: which branch ended the run
    message,    \* per loader process: what the run printed before exiting
    exitCode,   \* per loader process: process exit status, -1 while running
    foreign     \* accesses <<process, op, name>> to a staging file of another creator

vars == <<fs, fs0, enc, rt, bld, pc, decrypted_data, temp_file, temp_file_path, pending,
          created, owner, loaded, execCount, unlinked, outcome, message, exitCode, foreign>>

loaderVars == <<pc, decrypted_data, temp_file, temp_file_path, pending, created, owner,
                loaded, execCount, unlinked, outcome, message, exitCode, foreign>>

-----------------------------------------------------------------------------
\* Bounds of the model.

\* Payload bytes are 0 .. ByteMod-1.
ByteMod == 2
\* Longest payload.
MaxLen == 2
\* Fernet timestamps are 0 .. MaxTs, IVs are 0 .. MaxIv.
MaxTs == 1
MaxIv == 1

Bytes == 0 .. (ByteMod - 1)
Payloads == UNION {[1..n -> Bytes] : n \in 0..MaxLen}

\* The key literal shared by both classes, and some other well-formed key.
ENCRYPTION_KEY == 1
OtherKey == ENCRYPTION_KEY + 1
DECRYPTION_KEY == 1

NoFile == <<-1>>
None == "None"

-----------------------------------------------------------------------------
\* cryptography.fernet.Fernet as the two classes use it: a token is
\* timestamp, IV, ciphertext, HMAC over all that precedes it.

DigestBase == ByteMod + MaxTs + MaxIv + OtherKey + 2

RECURSIVE Digest(_)
Digest(s) ==
    IF s = <<>> THEN 1 ELSE Digest(SubSeq(s, 1, Len(s) - 1)) * DigestBase + s[Len(s)]

\* An injective keyed digest: equal only for equal key and message.
Mac(key, msg) == Digest(<<key>> \o msg)

Mod(x, m) == ((x % m) + m) % m

FernetEncrypt(key, data, ts, iv) ==
    LET ct == [i \in 1..Len(data) |-> Mod(data[i] + key + iv + i, ByteMod)]
        body == <<ts, iv>> \o ct
    IN body \o <<Mac(key, body)>>

\* Decryption of the ciphertext alone, the tag not looked at.
FernetDecryptUnchecked(key, token) ==
    IF Len(token) < 3 THEN [ok |-> FALSE, data |-> <<>>]
    ELSE LET body == SubSeq(token, 1, Len(token) - 1)
             iv == token[2]
             ct == SubSeq(token, 3, Len(token) - 1)
         IN [ok |-> TRUE,
             data |-> [i \in 1..Len(ct) |-> Mod(ct[i] - key - iv - i, ByteMod)]]

\* Fernet.decrypt: the tag is verified before any plaintext is produced; ok =
\* FALSE stands for InvalidToken.
FernetDecrypt(key, token) ==
    IF Len(token) < 3 THEN [ok |-> FALSE, data |-> <<>>]
    ELSE LET body == SubSeq(token, 1, Len(token) - 1)
         IN IF Mac(key, body) # token[Len(token)]
            THEN [ok |-> FALSE, data |-> <<>>]
            ELSE FernetDecryptUnchecked(key, token)

\* CythonRuntimeLoader._decrypt_file on the content of the artifact: the
\* decrypted bytes, or ok = FALSE for the ValueError it raises.
DecryptFile(content) == FernetDecrypt(DECRYPTION_KEY, content)

-----------------------------------------------------------------------------
\* CompiledEncryptor.encrypt_file(file_path, output_path)

SourcePath == "mod.so"
EncPaths == {"mod.so", "mod.so.encrypted", "out.bin"}
StagingNames == {"tmp1", "tmp2", "tmp3"}
ArtifactPath == "app.encrypted"
Paths == EncPaths \cup StagingNames \cup {ArtifactPath}

EmptyFs == [p \in Paths |-> NoFile]

\* output_path = file_path + '.encrypted' when none is given.
DefaultOutput(path) == IF path = "mod.so" THEN "mod.so.encrypted" ELSE "out.bin"

ResolveOutput(file_path, output_path) ==
    IF output_path = None THEN DefaultOutput(file_path) ELSE output_path

EncIdle == [pc |-> "idle", file_path |-> None, output_path |-> None, data |-> <<>>,
            encrypted_data |-> <<>>, caller |-> None]

EncFrame(file_path, output_path, caller) ==
    [pc |-> "read", file_path |-> file_path,
     output_path |-> ResolveOutput(file_path, output_path),
     data |-> <<>>, encrypted_data |-> <<>>, caller |-> caller]

\* with open(file_path, 'rb') as f: data = f.read()
EncRead ==
    /\ enc.pc = "read"
    /\ IF fs[enc.file_path] = NoFile
       THEN enc' = [enc EXCEPT !.pc = "raised"]
       ELSE enc' = [enc EXCEPT !.pc = "encrypt", !.data = fs[enc.file_path]]
    /\ UNCHANGED <<fs, fs0, rt, bld>>
    /\ UNCHANGED loaderVars

\* fernet = Fernet(cls.ENCRYPTION_KEY); encrypted_data = fernet.encrypt(data)
EncEncrypt ==
    /\ enc.pc = "encrypt"
    /\ \E ts \in 0..MaxTs, iv \in 0..MaxIv :
         enc' = [enc EXCEPT !.pc = "open",
                            !.encrypted_data = FernetEncrypt(ENCRYPTION_KEY, enc.data, ts, iv)]
    /\ UNCHANGED <<fs, fs0, rt, bld>>
    /\ UNCHANGED loaderVars

\* open(output_path, 'wb'): the file at output_path itself is created or truncated.
EncOpenWrite ==
    /\ enc.pc = "open"
    /\ fs' = [fs EXCEPT ![enc.output_path] = <<>>]
    /\ enc' = [enc EXCEPT !.pc = "write"]
    /\ UNCHANGED <<fs0, rt, bld>>
    /\ UNCHANGED loaderVars

\* open(output_path, 'wb') raises (unwritable location): nothing is changed.
EncOpenFail ==
    /\ enc.pc = "open"
    /\ enc' = [enc EXCEPT !.pc = "raised"]
    /\ UNCHANGED <<fs, fs0, rt, bld>>
    /\ UNCHANGED loaderVars

\* f.write(encrypted_data): the bytes reach the file front to back.
EncWrite ==
    /\ enc.pc = "write"
    /\ Len(fs[enc.output_path]) < Len(enc.encrypted_data)
    /\ fs' = [fs EXCEPT ![enc.output_path] =
                SubSeq(enc.encrypted_data, 1, Len(fs[enc.output_path]) + 1)]
    /\ UNCHANGED <<fs0, enc, rt, bld>>
    /\ UNCHANGED loaderVars

\* f.write / close raises part-way (device full): what was written stays.
EncWriteFail ==
    /\ enc.pc = "write"
    /\ Len(fs[enc.output_path]) < Len(enc.encrypted_data)
    /\ enc' = [enc EXCEPT !.pc = "raised"]
    /\ UNCHANGED <<fs, fs0, rt, bld>>
    /\ UNCHANGED loaderVars

\* the with block closes the file; print(...); return output_path
EncReturn ==
    /\ enc.pc = "write"
    /\ fs[enc.output_path] = enc.encrypted_data
    /\ enc' = [enc EXCEPT !.pc = "returned"]
    /\ UNCHANGED <<fs, fs0, rt, bld>>
    /\ UNCHANGED loaderVars

\* The process is killed or the machine stops anywhere inside the call.
EncCrash ==
    /\ enc.pc \in {"read", "encrypt", "open", "write"}
    /\ enc' = [enc EXCEPT !.pc = "crashed"]
    /\ UNCHANGED <<fs, fs0, rt, bld>>
    /\ UNCHANGED loaderVars

\* CythonRuntimeLoader(output_path)._decrypt_file() on the artifact just written.
RoundTripDecrypt ==
    /\ enc.pc = "returned"
    /\ ~rt.done
    /\ rt' = [done |-> TRUE, res |-> DecryptFile(fs[enc.output_path])]
    /\ UNCHANGED <<fs, fs0, enc, bld>>
    /\ UNCHANGED loaderVars


BldIdle == [pc |-> "idle", source |-> NoFile, compiled_file |-> None, encrypted_file |-> None,
            ran |-> <<>>, failed |-> None, report |-> [kind |-> None, line |-> 0],
            exit |-> -1]

RtNone == [done |-> FALSE, res |-> [ok |-> FALSE, data |-> <<>>]]

-----------------------------------------------------------------------------
\* runtime_loader.main / app_launcher.main and CythonRuntimeLoader.load_and_run,
\* one run per process, all on the artifact at ArtifactPath.

NProcs == 2
Procs == 1..NProcs

UsageMsg == "Usage: python runtime_loader.py <encrypted_compiled_file>"
MissingMsg == "Encrypted file not found"
DecryptMsg == "Error loading encrypted extension: Failed to decrypt file. Invalid encryption key."
ErrorMsg == "Error loading encrypted extension"

\* A name source that does not look at what exists.
AllNames(files) == StagingNames

\* The names tempfile.NamedTemporaryFile may take: it opens with O_CREAT | O_EXCL
\* and draws again on a name that exists.
FreshNames(files) == {n \in StagingNames : files[n] = NoFile}

\* sys.exit(code) after print(text)
Exit(p, code, why, text) ==
    /\ pc' = [pc EXCEPT ![p] = "exited"]
    /\ exitCode' = [exitCode EXCEPT ![p] = code]
    /\ outcome' = [outcome EXCEPT ![p] = why]
    /\ message' = [message EXCEPT ![p] = text]

\* The status the except handler of load_and_run exits with.
HandlerExit == 1

\* main: len(sys.argv) != 2
MainUsage(p) ==
    /\ pc[p] = "main"
    /\ Exit(p, 1, "usage", UsageMsg)
    /\ UNCHANGED <<fs, fs0, enc, rt, bld, decrypted_data, temp_file, temp_file_path, pending,
                   created, owner, loaded, execCount, unlinked, foreign>>

\* main: os.path.exists(encrypted_file), then CythonRuntimeLoader(...).load_and_run()
MainCheck(p) ==
    /\ pc[p] = "main"
    /\ IF fs[ArtifactPath] = NoFile
       THEN Exit(p, 1, "missing", MissingMsg)
       ELSE /\ pc' = [pc EXCEPT ![p] = "decrypt"]
            /\ UNCHANGED <<exitCode, outcome, message>>
    /\ UNCHANGED <<fs, fs0, enc, rt, bld, decrypted_data, temp_file, temp_file_path, pending,
                   created, owner, loaded, execCount, unlinked, foreign>>

\* decrypted_data = self._decrypt_file(); its ValueError reaches the outer handler.
Decrypt(p) ==
    /\ pc[p] = "decrypt"
    /\ LET res == DecryptFile(fs[ArtifactPath])
       IN IF res.ok
          THEN /\ decrypted_data' = [decrypted_data EXCEPT ![p] = res.data]
               /\ pc' = [pc EXCEPT ![p] = "stage"]
               /\ UNCHANGED <<exitCode, outcome, message>>
          ELSE /\ Exit(p, HandlerExit, "decrypt_failed", DecryptMsg)
               /\ UNCHANGED decrypted_data
    /\ UNCHANGED <<fs, fs0, enc, rt, bld, temp_file, temp_file_path, pending,
                   created, owner, loaded, execCount, unlinked, foreign>>

\* tempfile.NamedTemporaryFile(suffix=suffix, delete=False)
StageCreate(p) ==
    /\ pc[p] = "stage"
    /\ \E n \in FreshNames(fs) :
         /\ fs' = [fs EXCEPT ![n] = <<>>]
         /\ owner' = [owner EXCEPT ![n] = p]
         /\ created' = [created EXCEPT ![p] = @ \cup {n}]
         /\ temp_file' = [temp_file EXCEPT ![p] = n]
         /\ foreign' = IF fs[n] # NoFile THEN foreign \cup {<<p, "create", n>>} ELSE foreign
    /\ pc' = [pc EXCEPT ![p] = "write"]
    /\ UNCHANGED <<fs0, enc, rt, bld, decrypted_data, temp_file_path, pending,
                   loaded, execCount, unlinked, outcome, message, exitCode>>

\* NamedTemporaryFile raises (no usable directory or name): nothing is created.
StageCreateFail(p) ==
    /\ pc[p] = "stage"
    /\ Exit(p, HandlerExit, "stage_failed", ErrorMsg)
    /\ UNCHANGED <<fs, fs0, enc, rt, bld, decrypted_data, temp_file, temp_file_path, pending,
                   created, owner, loaded, execCount, unlinked, foreign>>

\* temp_file.write(decrypted_data); temp_file_path = temp_file.name; the file is closed.
StageWrite(p) ==
    /\ pc[p] = "write"
    /\ fs' = [fs EXCEPT ![temp_file[p]] = decrypted_data[p]]
    /\ temp_file_path' = [temp_file_path EXCEPT ![p] = temp_file[p]]
    /\ foreign' = IF owner[temp_file[p]] # p
                  THEN foreign \cup {<<p, "write", temp_file[p]>>} ELSE foreign
    /\ pc' = [pc EXCEPT ![p] = "load"]
    /\ UNCHANGED <<fs0, enc, rt, bld, decrypted_data, temp_file, pending, created, owner,
                   loaded, execCount, unlinked, outcome, message, exitCode>>

\* temp_file.write raises (device full): the with block closes the file, which
\* delete=False keeps, and the exception leaves through the outer handler, the
\* inner try / finally not yet entered.
StageWriteFail(p) ==
    /\ pc[p] = "write"
    /\ Exit(p, HandlerExit, "stage_failed", ErrorMsg)
    /\ UNCHANGED <<fs, fs0, enc, rt, bld, decrypted_data, temp_file, temp_file_path, pending,
                   created, owner, loaded, execCount, unlinked, foreign>>

\* spec_from_file_location(...); module_from_spec(spec); sys.modules[name] = module
LoadModule(p) ==
    /\ pc[p] = "load"
    /\ loaded' = [loaded EXCEPT ![p] = TRUE]
    /\ foreign' = IF owner[temp_file_path[p]] # p
                  THEN foreign \cup {<<p, "load", temp_file_path[p]>>} ELSE foreign
    /\ pc' = [pc EXCEPT ![p] = "exec"]
    /\ UNCHANGED <<fs, fs0, enc, rt, bld, decrypted_data, temp_file, temp_file_path, pending,
                   created, owner, execCount, unlinked, outcome, message, exitCode>>

\* spec is None, or module_from_spec raises ImportError: on to the finally block.
LoadFail(p) ==
    /\ pc[p] = "load"
    /\ pending' = [pending EXCEPT ![p] = "load_failed"]
    /\ foreign' = IF owner[temp_file_path[p]] # p
                  THEN foreign \cup {<<p, "load", temp_file_path[p]>>} ELSE foreign
    /\ pc' = [pc EXCEPT ![p] = "finally"]
    /\ UNCHANGED <<fs, fs0, enc, rt, bld, decrypted_data, temp_file, temp_file_path,
                   created, owner, loaded, execCount, unlinked, outcome, message, exitCode>>

\* spec.loader.exec_module(module); hasattr(module, '__name__') holds of every
\* module, so the second call follows.
ExecModule(p) ==
    /\ pc[p] = "exec"
    /\ execCount' = [execCount EXCEPT ![p] = @ + 1]
    /\ pc' = [pc EXCEPT ![p] = "reexec"]
    /\ UNCHANGED <<fs, fs0, enc, rt, bld, decrypted_data, temp_file, temp_file_path, pending,
                   created, owner, loaded, unlinked, outcome, message, exitCode, foreign>>

\* module.__name__ = '__main__'; spec.loader.exec_module(module); return module.
\* The loader of an extension module runs the module's exec slots again unless
\* the module keeps per-module state or guards against re-initialisation
\* itself, so the body runs a second time or not, as the payload was built.
ReExecModule(p) ==
    /\ pc[p] = "reexec"
    /\ \E reran \in BOOLEAN :
         execCount' = [execCount EXCEPT ![p] = IF reran THEN @ + 1 ELSE @]
    /\ pc' = [pc EXCEPT ![p] = "finally"]
    /\ UNCHANGED <<fs, fs0, enc, rt, bld, decrypted_data, temp_file, temp_file_path, pending,
                   created, owner, loaded, unlinked, outcome, message, exitCode, foreign>>

\* Either exec_module call raises out of the module body.
ExecRaise(p) ==
    /\ pc[p] \in {"exec", "reexec"}
    /\ pending' = [pending EXCEPT ![p] = "invoke_failed"]
    /\ pc' = [pc EXCEPT ![p] = "finally"]
    /\ UNCHANGED <<fs, fs0, enc, rt, bld, decrypted_data, temp_file, temp_file_path,
                   created, owner, loaded, execCount, unlinked, outcome, message, exitCode,
                   foreign>>

\* After the finally block: return module and let main end, or the outer
\* handler prints the pending exception and calls sys.exit(1).
Leave(p) ==
    IF pending[p] = None
    THEN Exit(p, 0, "success", None)
    ELSE Exit(p, HandlerExit, pending[p], ErrorMsg)

\* finally: os.unlink(temp_file_path)
Unlink(p) ==
    /\ pc[p] = "finally"
    /\ fs[temp_file_path[p]] # NoFile
    /\ fs' = [fs EXCEPT ![temp_file_path[p]] = NoFile]
    /\ owner' = [owner EXCEPT ![temp_file_path[p]] = -1]
    /\ foreign' = IF owner[temp_file_path[p]] # p
                  THEN foreign \cup {<<p, "unlink", temp_file_path[p]>>} ELSE foreign
    /\ unlinked' = [unlinked EXCEPT ![p] = "ok"]
    /\ Leave(p)
    /\ UNCHANGED <<fs0, enc, rt, bld, decrypted_data, temp_file, temp_file_path, pending,
                   created, loaded, execCount>>

\* finally: os.unlink raises (the loaded file is locked, or gone); except: pass
UnlinkFail(p) ==
    /\ pc[p] = "finally"
    /\ unlinked' = [unlinked EXCEPT ![p] = "failed"]
    /\ Leave(p)
    /\ UNCHANGED <<fs, fs0, enc, rt, bld, decrypted_data, temp_file, temp_file_path, pending,
                   created, owner, loaded, execCount, foreign>>

\* The process is killed inside load_and_run: no handler and no finally block runs.
Kill(p) ==
    /\ pc[p] \in {"decrypt", "stage", "write", "load", "exec", "reexec", "finally"}
    /\ pc' = [pc EXCEPT ![p] = "killed"]
    /\ outcome' = [outcome EXCEPT ![p] = "killed"]
    /\ UNCHANGED <<fs, fs0, enc, rt, bld, decrypted_data, temp_file, temp_file_path, pending,
                   created, owner, loaded, execCount, unlinked, message, exitCode, foreign>>

LoaderInit(start) ==
    /\ pc = [p \in Procs |-> start]
    /\ decrypted_data = [p \in Procs |-> <<>>]
    /\ temp_file = [p \in Procs |-> None]
    /\ temp_file_path = [p \in Procs |-> None]
    /\ pending = [p \in Procs |-> None]
    /\ created = [p \in Procs |-> {}]
    /\ loaded = [p \in Procs |-> FALSE]
    /\ execCount = [p \in Procs |-> 0]
    /\ unlinked = [p \in Procs |-> "no"]
    /\ outcome = [p \in Procs |-> None]
    /\ message = [p \in Procs |-> None]
    /\ exitCode = [p \in Procs |-> -1]
    /\ foreign = {}

\* The payload the artifacts of the loader runs hold.
AppPayload == <<1, 0>>

\* What may lie at the artifact path: the artifact encrypt_file wrote, one
\* written under another key, one with its last ciphertext unit or its tag
\* changed, one cut short, or nothing.
GoodArtifact == FernetEncrypt(ENCRYPTION_KEY, AppPayload, 0, 1)
Artifacts ==
    {GoodArtifact,
     FernetEncrypt(OtherKey, AppPayload, 0, 1),
     [GoodArtifact EXCEPT ![4] = Mod(@ + 1, ByteMod)],
     [GoodArtifact EXCEPT ![5] = @ + 1],
     SubSeq(GoodArtifact, 1, 2),
     NoFile}

\* Loader processes about to start, an artifact, and at most one staging file
\* left by an earlier run that was killed (its creator is process 0).
InitLoad ==
    /\ \E art \in Artifacts, stale \in {{}} \cup {{n} : n \in StagingNames} :
         /\ fs = [p \in Paths |-> IF p = ArtifactPath THEN art
                                   ELSE IF p \in stale THEN AppPayload ELSE NoFile]
         /\ owner = [n \in StagingNames |-> IF n \in stale THEN 0 ELSE -1]
    /\ fs0 = fs
    /\ enc = EncIdle
    /\ rt = RtNone
    /\ bld = BldIdle
    /\ LoaderInit("main")

NextLoad ==
    \E p \in Procs :
        \/ MainUsage(p)
        \/ MainCheck(p)
        \/ Decrypt(p)
        \/ StageCreate(p)
        \/ StageCreateFail(p)
        \/ StageWrite(p)
        \/ StageWriteFail(p)
        \/ LoadModule(p)
        \/ LoadFail(p)
        \/ ExecModule(p)
        \/ ReExecModule(p)
        \/ ExecRaise(p)
        \/ Unlink(p)
        \/ UnlinkFail(p)
        \/ Kill(p)

Spec == InitLoad /\ [][NextLoad]_vars

-----------------------------------------------------------------------------
\* A call encrypt_file(file_path, output_path) on a filesystem holding the
\* source (or not) and possibly an older artifact at the output path.

\* An artifact left at the output path by an earlier build.
OldArtifact == FernetEncrypt(ENCRYPTION_KEY, <<0>>, 0, 0)

InitEncrypt ==
    /\ \E src \in Payloads \cup {NoFile}, old \in {NoFile, OldArtifact},
          out \in {None, "out.bin", SourcePath} :
         /\ fs = [EmptyFs EXCEPT ![SourcePath] = src,
                    ![ResolveOutput(SourcePath, out)] =
                        IF ResolveOutput(SourcePath, out) = SourcePath THEN src ELSE old]
         /\ enc = EncFrame(SourcePath, out, "direct")
    /\ fs0 = fs
    /\ rt = RtNone
    /\ bld = BldIdle
    /\ owner = [n \in StagingNames |-> -1]
    /\ LoaderInit("idle")

NextEncrypt ==
    \/ EncRead
    \/ EncEncrypt
    \/ EncOpenWrite
    \/ EncOpenFail
    \/ EncWrite
    \/ EncWriteFail
    \/ EncReturn
    \/ EncCrash
    \/ RoundTripDecrypt

SpecEncrypt == InitEncrypt /\ [][NextEncrypt]_vars

-----------------------------------------------------------------------------
\* build_encrypted_app.py: __main__ and build_encrypted_application(source_file).
\* compile_to_cython leaves the extension at SourcePath; the final name is
\* ArtifactPath.

\* The report of a run that stops: a line the program prints, or the traceback
\* of an uncaught exception, whose frame in build_encrypted_application names
\* the line of the call that raised.
Printed(line) == [kind |-> "print", line |-> line]
Traceback(line) == [kind |-> "traceback", line |-> line]

BldStop(step, report) ==
    [bld EXCEPT !.pc = "exited", !.failed = step, !.report = report, !.exit = 1]

\* len(sys.argv) != 2: usage, sys.exit(1)
BldUsage ==
    /\ bld.pc = "main"
    /\ bld' = BldStop(None, Printed(45))
    /\ UNCHANGED <<fs, fs0, enc, rt>>
    /\ UNCHANGED loaderVars

\* not os.path.exists(source_file): sys.exit(1)
BldSourceMissing ==
    /\ bld.pc = "main"
    /\ bld.source = NoFile
    /\ bld' = BldStop(None, Printed(52))
    /\ UNCHANGED <<fs, fs0, enc, rt>>
    /\ UNCHANGED loaderVars

\* success = build_encrypted_application(source_file)
BldCall ==
    /\ bld.pc = "main"
    /\ bld.source # NoFile
    /\ bld' = [bld EXCEPT !.pc = "compile"]
    /\ UNCHANGED <<fs, fs0, enc, rt>>
    /\ UNCHANGED loaderVars

\* Step 1: compile_to_cython returns the path of the extension it built.
BldCompileOk ==
    /\ bld.pc = "compile"
    /\ \E blob \in Payloads : fs' = [fs EXCEPT ![SourcePath] = blob]
    /\ bld' = [bld EXCEPT !.pc = "encrypt", !.compiled_file = SourcePath,
                          !.ran = Append(@, "compile")]
    /\ UNCHANGED <<fs0, enc, rt>>
    /\ UNCHANGED loaderVars

\* Step 1: compile_to_cython returns None (the compiler failed, no extension was
\* found, or an exception inside its try); "Failed to compile with Cython!",
\* return False, then "Build failed!" and sys.exit(1).
BldCompileNone ==
    /\ bld.pc = "compile"
    /\ bld' = [BldStop("compile", Printed(17)) EXCEPT !.ran = Append(@, "compile")]
    /\ UNCHANGED <<fs, fs0, enc, rt>>
    /\ UNCHANGED loaderVars

\* Step 1: compile_to_cython raises before its try (makedirs, the setup script,
\* the copy of the source): uncaught, the traceback names line 14.
BldCompileRaise ==
    /\ bld.pc = "compile"
    /\ bld' = [BldStop("compile", Traceback(14)) EXCEPT !.ran = Append(@, "compile")]
    /\ UNCHANGED <<fs, fs0, enc, rt>>
    /\ UNCHANGED loaderVars

\* Step 2: encrypted_file = CompiledEncryptor.encrypt_file(compiled_file)
BldEncryptCall ==
    /\ bld.pc = "encrypt"
    /\ enc.pc = "idle"
    /\ enc' = EncFrame(bld.compiled_file, None, "build")
    /\ bld' = [bld EXCEPT !.pc = "encrypting", !.ran = Append(@, "encrypt")]
    /\ UNCHANGED <<fs, fs0, rt>>
    /\ UNCHANGED loaderVars

BldEncryptReturned ==
    /\ bld.pc = "encrypting"
    /\ enc.pc = "returned"
    /\ bld' = [bld EXCEPT !.pc = "copy", !.encrypted_file = enc.output_path]
    /\ UNCHANGED <<fs, fs0, enc, rt>>
    /\ UNCHANGED loaderVars

\* A pipeline that notes the failure of step 2 and goes on to step 3.
BldEncryptRaisedContinue ==
    /\ bld.pc = "encrypting"
    /\ enc.pc = "raised"
    /\ bld' = [bld EXCEPT !.pc = "copy", !.failed = "encrypt",
                          !.encrypted_file = enc.output_path]
    /\ UNCHANGED <<fs, fs0, enc, rt>>
    /\ UNCHANGED loaderVars

\* Step 2 raises: nothing in build_encrypted_application or __main__ catches it,
\* so the interpreter prints the traceback (line 22) and exits with status 1.
BldEncryptRaised ==
    /\ bld.pc = "encrypting"
    /\ enc.pc = "raised"
    /\ bld' = BldStop("encrypt", Traceback(22))
    /\ UNCHANGED <<fs, fs0, enc, rt>>
    /\ UNCHANGED loaderVars

\* Step 3: shutil.copy2(encrypted_file, final_path)
BldCopy ==
    /\ bld.pc = "copy"
    /\ fs[bld.encrypted_file] # NoFile
    /\ fs' = [fs EXCEPT ![ArtifactPath] = fs[bld.encrypted_file]]
    /\ bld' = [bld EXCEPT !.pc = "cleanup", !.ran = Append(@, "copy")]
    /\ UNCHANGED <<fs0, enc, rt>>
    /\ UNCHANGED loaderVars

\* Step 3 raises (source gone, destination unwritable, device full): the
\* destination holds what it held or the part copied so far.
BldCopyFail ==
    /\ bld.pc = "copy"
    /\ \/ UNCHANGED fs
       \/ /\ fs[bld.encrypted_file] # NoFile
          /\ \E k \in 0..(Len(fs[bld.encrypted_file]) - 1) :
               fs' = [fs EXCEPT ![ArtifactPath] = SubSeq(fs[bld.encrypted_file], 1, k)]
    /\ bld' = [BldStop("copy", Traceback(27)) EXCEPT !.ran = Append(@, "copy")]
    /\ UNCHANGED <<fs0, enc, rt>>
    /\ UNCHANGED loaderVars

\* if cleanup: shutil.rmtree("build") inside try / except: pass; return True.
\* The extension and its artifact lie in output_dir "../build", another directory.
BldFinish ==
    /\ bld.pc = "cleanup"
    /\ bld' = [bld EXCEPT !.pc = "exited", !.exit = 0]
    /\ UNCHANGED <<fs, fs0, enc, rt>>
    /\ UNCHANGED loaderVars

InitBuild ==
    /\ \E src \in {NoFile, <<0>>}, old \in {NoFile, OldArtifact},
          oldExt \in {NoFile} \cup Payloads :
         /\ fs = [EmptyFs EXCEPT ![ArtifactPath] = old, ![SourcePath] = oldExt]
         /\ bld = [BldIdle EXCEPT !.pc = "main", !.source = src]
    /\ fs0 = fs
    /\ enc = EncIdle
    /\ rt = RtNone
    /\ owner = [n \in StagingNames |-> -1]
    /\ LoaderInit("idle")

NextBuild ==
    \/ BldUsage
    \/ BldSourceMissing
    \/ BldCall
    \/ BldCompileOk
    \/ BldCompileNone
    \/ BldCompileRaise
    \/ BldEncryptCall
    \/ EncRead
    \/ EncEncrypt
    \/ EncOpenWrite
    \/ EncOpenFail
    \/ EncWrite
    \/ EncWriteFail
    \/ EncReturn
    \/ BldEncryptReturned
    \/ BldEncryptRaised
    \/ BldCopy
    \/ BldCopyFail
    \/ BldFinish

SpecBuild == InitBuild /\ [][NextBuild]_vars

-----------------------------------------------------------------------------
\* Properties of the loader (Spec).

Remaining(p) == {n \in created[p] : fs[n] # NoFile /\ owner[n] = p}

\* C2: after a successful load_and_run its staging file no longer exists, and
\* a run whose decryption fails never creates one.
C2_NoStagingLeft ==
    \A p \in Procs :
        /\ outcome[p] = "success" => Remaining(p) = {}
        /\ outcome[p] = "decrypt_failed" => created[p] = {}

\* The exit status each outcome class is to end with.
ExpectedExit(why) ==
    CASE why = "success" -> 0
      [] why = "missing" -> 1
      [] why = "decrypt_failed" -> 2
      [] why \in {"load_failed", "invoke_failed"} -> 3

\* C3: the run ends with status 0 on success, 1 on a missing artifact, 2 on a
\* decryption failure and 3 on a load or invoke failure.
C3_ExitCodePerOutcome ==
    \A p \in Procs :
        outcome[p] \in {"success", "missing", "decrypt_failed", "load_failed", "invoke_failed"}
            => exitCode[p] = ExpectedExit(outcome[p])

\* The token carries the tag the loader's key gives its body.
Authentic(token) ==
    /\ Len(token) >= 3
    /\ Mac(DECRYPTION_KEY, SubSeq(token, 1, Len(token) - 1)) = token[Len(token)]

\* C4: when the artifact does not authenticate under the loader's key, no
\* process ever stages, loads or executes anything; a run that gets to
\* decrypting ends failed, reporting the decryption failure.
C4_DecryptFailureStops ==
    (fs[ArtifactPath] # NoFile /\ ~Authentic(fs[ArtifactPath])) =>
        \A p \in Procs :
            /\ created[p] = {}
            /\ temp_file[p] = None
            /\ ~loaded[p]
            /\ execCount[p] = 0
            /\ pc[p] \in {"main", "decrypt", "exited", "killed"}
            /\ (pc[p] = "exited" /\ outcome[p] # "usage") =>
                  /\ outcome[p] = "decrypt_failed"
                  /\ message[p] = DecryptMsg
                  /\ exitCode[p] # 0

C4_Witness ==
    \E p \in Procs : pc[p] = "exited" /\ outcome[p] = "decrypt_failed"

\* C8: a run of load_and_run that ends in failure after a staging file was
\* created has attempted to delete it.
C8_CleanupOnEveryFailure ==
    \A p \in Procs :
        (pc[p] = "exited" /\ exitCode[p] # 0 /\ created[p] # {}) => unlinked[p] # "no"

\* Process p holds a staging file it created and has not yet tried to delete.
Staged(p) == pc[p] \in {"write", "load", "exec", "reexec", "finally"}

\* C10: concurrent loader processes stage under distinct paths, each touches
\* only the staging file it created, and a staging file found before the runs
\* is neither written, loaded, deleted nor taken over.
C10_OwnStagingOnly ==
    /\ foreign = {}
    /\ \A p \in Procs : Staged(p) => owner[temp_file[p]] = p
    /\ \A p, q \in Procs : (p # q /\ Staged(p) /\ Staged(q)) => temp_file[p] # temp_file[q]
    /\ \A n \in StagingNames : fs0[n] # NoFile => (fs[n] = fs0[n] /\ owner[n] = 0)

C10_Witness ==
    /\ \E n \in StagingNames : owner[n] = 0
    /\ \E p, q \in Procs : p # q /\ pc[p] = "killed" /\ created[p] # {} /\ pc[q] = "finally"

-----------------------------------------------------------------------------
\* Properties of encrypt_file (SpecEncrypt).

\* C5: decrypting the artifact encrypt_file wrote gives back exactly the bytes
\* the source file held.
C5_RoundTrip ==
    rt.done => (rt.res.ok /\ rt.res.data = fs0[enc.file_path])

C5_Witness ==
    rt.done /\ rt.res.ok /\ Len(rt.res.data) = MaxLen /\ enc.encrypted_data # enc.data

\* C6: whenever encrypt_file stops before returning (crash or error), the
\* output path holds what it held before the call or the complete artifact.
C6_AtomicWrite ==
    enc.pc \in {"crashed", "raised"} =>
        \/ fs[enc.output_path] = fs0[enc.output_path]
        \/ enc.pc # "read" /\ enc.encrypted_data # <<>>
              /\ fs[enc.output_path] = enc.encrypted_data

\* C7: after encrypt_file returns or raises, the source file that existed at
\* file_path still holds the content it had.
C7_SourceUntouched ==
    (enc.pc \in {"returned", "raised"} /\ fs0[enc.file_path] # NoFile) =>
        fs[enc.file_path] = fs0[enc.file_path]

-----------------------------------------------------------------------------
\* Properties of build_encrypted_application (SpecBuild).

Steps == <<"compile", "encrypt", "copy">>

\* The step a report points at.
ReportedStep(report) ==
    CASE report.line \in {14, 17} -> "compile"
      [] report.line = 22 -> "encrypt"
      [] report.line = 27 -> "copy"
      [] OTHER -> None

\* C9: the steps run in the order compile, encrypt, copy, none twice; once a
\* step has failed the run is over with a non-zero status, the failed step is
\* the last one that ran, and the report points at it.
C9_AbortOnFailure ==
    /\ Len(bld.ran) <= Len(Steps)
    /\ bld.ran = SubSeq(Steps, 1, Len(bld.ran))
    /\ bld.failed # None =>
          /\ bld.pc = "exited"
          /\ bld.exit # 0
          /\ bld.ran[Len(bld.ran)] = bld.failed
          /\ ReportedStep(bld.report) = bld.failed

C9_Witness ==
    bld.pc = "exited" /\ bld.failed = "encrypt" /\ fs[ArtifactPath] = fs0[ArtifactPath]

====
